---- MODULE Spec2Model ----
(***************************************************************************)
(* Model of NwUtilities (src/NwUtilties.py): the three single-slot session *)
(* caches (_junos_device, _jumphost_client, _target_client) and the        *)
(* open / close / tunnel / copy / teardown methods that read and write     *)
(* them.  The third-party clients (PyEZ Device, paramiko SSHClient, scp)   *)
(* are the environment: every call into them either succeeds or raises,    *)
(* which each action draws nondeterministically.                           *)
(*                                                                         *)
(* A method is an operator from the manager's state, its arguments and the *)
(* environment's choices to a result record: the state after, how the call *)
(* ended (return or raise), what it returned or raised, and the trace of   *)
(* library calls and log records it made.  One action per public method    *)
(* applies the operator and stores the result in `last`.                   *)
(***************************************************************************)
EXTENDS Integers, Sequences, FiniteSets, TLC

\* Bound: the number of client objects (Device, SSHClient) constructed in a run.
MaxHandles == 3

\* Python's None in a cache slot; live handles are numbered from 1.
None == 0

\* Default value of the port / dst_port parameters.
DefaultPort == 22

\* Python's None for a string parameter that was not given.
NoneStr == "None"

\* Truthiness of an optional string: None and "" are falsy.
Falsy(x) == x = NoneStr \/ x = ""

VARIABLES
    _junos_device,     \* self._junos_device: handle or None
    _jumphost_client,  \* self._jumphost_client: handle or None
    _target_client,    \* self._target_client: handle or None
    handles,           \* every client object constructed so far, by handle
    config,            \* self.config: (section, key) -> value, as read at construction
    last,              \* record of the most recent method call
    threads            \* the call each thread is in, its position and its locals

vars == <<_junos_device, _jumphost_client, _target_client, handles, config, last,
          threads>>

----------------------------------------------------------------------------
(* Values *)

\* The state a method works on: the three slots and the client objects.
Self == [dev |-> _junos_device, jump |-> _jumphost_client,
         target |-> _target_client, handles |-> handles, config |-> config]

\* One entry of a call's trace: a library call on handle h, the exception a
\* library call on h raised, a log record or the entry of a method of the
\* manager (h = None for the last two).
Ev(name, h) == [ev |-> name, h |-> h]

\* Connection arguments (hostname, username, password, port).
ConnArgs(h, u, p, port) == [hostname |-> h, username |-> u, password |-> p, port |-> port]

\* The arguments a call gets when the caller passes none.
DefaultConnArgs == ConnArgs(NoneStr, NoneStr, NoneStr, DefaultPort)

\* The construction of a client object, with the arguments it was given.
EvNew(name, h, a) == [ev |-> name, h |-> h, args |-> a]

\* A method returns: kind tells what (None, a handle, a pair, a shell, a bool).
Return(s, kind, ret, events) ==
    [s |-> s, outcome |-> "return", kind |-> kind, ret |-> ret,
     exc |-> NoneStr, events |-> events]

\* A method raises exc.
Raise(s, exc, events) ==
    [s |-> s, outcome |-> "raise", kind |-> "exception", ret |-> <<>>,
     exc |-> exc, events |-> events]

\* Statement sequencing: r2 is the next statement run on r's state; it takes
\* effect unless r raised, and the traces concatenate.
Then(r, r2) ==
    IF r.outcome = "raise" THEN r
    ELSE [r2 EXCEPT !.events = r.events \o @]

\* Entry of a method of the manager, recorded at the head of its trace.
Call(name, r) == [r EXCEPT !.events = <<Ev(name, None)>> \o @]

\* A new client object of the given class; its handle is the next free one.
NewHandle(s) == Len(s.handles) + 1
Construct(s, class) ==
    [s EXCEPT !.handles = Append(@, [class |-> class, st |-> "new"])]

\* x.close() of the client library on handle h: it raises for the handles the
\* environment chose (closeFail), else the object is closed.
LibClose(s, h, closeFail) ==
    IF h \in closeFail
    THEN Raise(s, "CloseError", <<Ev("close", h), Ev("CloseError", h)>>)
    ELSE Return([s EXCEPT !.handles[h].st = "closed"], "None", <<>>, <<Ev("close", h)>>)

----------------------------------------------------------------------------
(* Construction and configuration *)

\* ./_config.ini as the constructor finds it: missing, or there with the
\* given (section, key) -> value content.
NoConfigFile == [exists |-> FALSE, data |-> <<>>]
ConfigFile(data) == [exists |-> TRUE, data |-> data]

\* __init__(): an empty parser, filled from the file only when it exists (a
\* warning is logged otherwise); the three slots start as None.
__init__(config_file) ==
    Call("__init__",
      Return([dev |-> None, jump |-> None, target |-> None, handles |-> <<>>,
              config |-> IF config_file.exists THEN config_file.data ELSE <<>>],
             "None", <<>>,
             IF config_file.exists THEN <<>> ELSE <<Ev("logger.warning", None)>>))

\* _get_config(section, key, default): the value, or default when the lookup
\* raises.
_get_config(s, section, key, default) ==
    IF <<section, key>> \in DOMAIN s.config THEN s.config[<<section, key>>] ELSE default

\* Mutation of DeviceKwargs: the port is taken from the configuration (830
\* when it has none) and not from the call.
DeviceKwargs_config_port(a) ==
    [host |-> a.hostname, user |-> a.username, passwd |-> a.password, port |-> 830]

\* The keyword arguments junos_open_connection gives to Device.
DeviceKwargs(a) ==
    [host |-> a.hostname, user |-> a.username, passwd |-> a.password, port |-> a.port]

----------------------------------------------------------------------------
(* Junos connection methods *)

\* Mutation of junos_open_connection: the cache check is missing, so every
\* call constructs and opens a new Device.
junos_open_connection_refresh(s, a, env) ==
    Call("junos_open_connection",
      LET dev == NewHandle(s)
          s1  == Construct(s, "Device")
          pre == <<Ev("logger.info", None), EvNew("Device", dev, DeviceKwargs(a)), Ev("open", dev)>>
      IN IF env.fail = "open"
         THEN Raise(s1, env.exc, pre \o <<Ev(env.exc, dev), Ev("logger.error", None)>>)
         ELSE Return([s1 EXCEPT !.handles[dev].st = "open", !.dev = dev],
                     "handle", <<dev>>, pre \o <<Ev("logger.info", None)>>))

\* junos_open_connection(hostname, username, password, port): env.fail = "open"
\* makes dev.open() raise env.exc. All three except clauses log and re-raise.
junos_open_connection(s, a, env) ==
    Call("junos_open_connection",
      IF s.dev # None
      THEN Return(s, "handle", <<s.dev>>, <<Ev("logger.info", None)>>)
      ELSE LET dev == NewHandle(s)
               s1  == Construct(s, "Device")
               pre == <<Ev("logger.info", None), EvNew("Device", dev, DeviceKwargs(a)), Ev("open", dev)>>
           IN IF env.fail = "open"
              THEN Raise(s1, env.exc, pre \o <<Ev(env.exc, dev), Ev("logger.error", None)>>)
              ELSE Return([s1 EXCEPT !.handles[dev].st = "open", !.dev = dev],
                          "handle", <<dev>>, pre \o <<Ev("logger.info", None)>>))

\* Mutation of junos_close_connection: the except clause re-raises.
junos_close_connection_reraise(s, env) ==
    Call("junos_close_connection",
      IF s.dev # None
      THEN LET c == LibClose(s, s.dev, env.closeFail)
           IN IF c.outcome = "raise"
              THEN Raise(c.s, c.exc, c.events \o <<Ev("logger.error", None)>>)
              ELSE Return([c.s EXCEPT !.dev = None], "None", <<>>,
                          c.events \o <<Ev("logger.info", None)>>)
      ELSE Return(s, "None", <<>>, <<Ev("logger.warning", None)>>))

\* Mutation of junos_close_connection: the `is not None` test is missing, so
\* with nothing cached the attribute access on None raises inside the try.
junos_close_connection_unguarded(s, env) ==
    Call("junos_close_connection",
      IF s.dev # None
      THEN LET c == LibClose(s, s.dev, env.closeFail)
           IN IF c.outcome = "raise"
              THEN Return(c.s, "None", <<>>, c.events \o <<Ev("logger.error", None)>>)
              ELSE Return([c.s EXCEPT !.dev = None], "None", <<>>,
                          c.events \o <<Ev("logger.info", None)>>)
      ELSE Return(s, "None", <<>>, <<Ev("AttributeError", None), Ev("logger.error", None)>>))

\* junos_close_connection(): the slot is cleared by the statement after
\* close(), inside the try; the except clause logs and does not re-raise.
junos_close_connection(s, env) ==
    Call("junos_close_connection",
      IF s.dev # None
      THEN LET c == LibClose(s, s.dev, env.closeFail)
           IN IF c.outcome = "raise"
              THEN Return(c.s, "None", <<>>, c.events \o <<Ev("logger.error", None)>>)
              ELSE Return([c.s EXCEPT !.dev = None], "None", <<>>,
                          c.events \o <<Ev("logger.info", None)>>)
      ELSE Return(s, "None", <<>>, <<Ev("logger.warning", None)>>))

\* Mutation of connect_junos_shell: it opens a new connection for every
\* shell, cached device or not.
connect_junos_shell_reopen(s, env) ==
    Call("connect_junos_shell",
      LET o == junos_open_connection([s EXCEPT !.dev = None], DefaultConnArgs, env)
      IN IF o.outcome = "raise"
         THEN Raise([o.s EXCEPT !.dev = s.dev], o.exc,
                    o.events \o <<Ev("logger.error", None)>>)
         ELSE Return(o.s, "shell", o.ret,
                     o.events \o <<Ev("StartShell", o.ret[1]), Ev("logger.info", None)>>))

\* connect_junos_shell(): junos_open_connection() with its defaults, then a
\* StartShell around the device; any exception is logged and re-raised.
connect_junos_shell(s, env) ==
    Call("connect_junos_shell",
      LET o == junos_open_connection(s, DefaultConnArgs, env)
      IN IF o.outcome = "raise"
         THEN Raise(o.s, o.exc, o.events \o <<Ev("logger.error", None)>>)
         ELSE Return(o.s, "shell", o.ret,
                     o.events \o <<Ev("StartShell", o.ret[1]), Ev("logger.info", None)>>))

----------------------------------------------------------------------------
(* Jumphost connection methods *)

\* Mutation of jumphost_connect: the cache check is missing, so a second
\* call reconnects.
jumphost_connect_refresh(s, a, env) ==
    Call("jumphost_connect",
      LET jumphost_client == NewHandle(s)
          s1  == Construct(s, "SSHClient")
          pre == <<Ev("logger.info", None), EvNew("SSHClient", jumphost_client, a),
                   Ev("connect", jumphost_client)>>
      IN IF env.fail = "connect"
         THEN Raise(s1, env.exc,
                    pre \o <<Ev(env.exc, jumphost_client), Ev("logger.error", None)>>)
         ELSE Return([s1 EXCEPT !.handles[jumphost_client].st = "open",
                                !.jump = jumphost_client],
                     "handle", <<jumphost_client>>, pre \o <<Ev("logger.info", None)>>))

\* jumphost_connect(hostname, username, password, port): env.fail = "connect"
\* makes SSHClient.connect raise env.exc; every except clause re-raises.
jumphost_connect(s, a, env) ==
    Call("jumphost_connect",
      IF s.jump # None
      THEN Return(s, "handle", <<s.jump>>, <<Ev("logger.info", None)>>)
      ELSE LET jumphost_client == NewHandle(s)
               s1  == Construct(s, "SSHClient")
               pre == <<Ev("logger.info", None), EvNew("SSHClient", jumphost_client, a),
                        Ev("connect", jumphost_client)>>
           IN IF env.fail = "connect"
              THEN Raise(s1, env.exc,
                         pre \o <<Ev(env.exc, jumphost_client), Ev("logger.error", None)>>)
              ELSE Return([s1 EXCEPT !.handles[jumphost_client].st = "open",
                                     !.jump = jumphost_client],
                          "handle", <<jumphost_client>>, pre \o <<Ev("logger.info", None)>>))

\* Mutation of jumphost_disconnect: the except clause re-raises.
jumphost_disconnect_reraise(s, env) ==
    Call("jumphost_disconnect",
      IF s.jump # None
      THEN LET c == LibClose(s, s.jump, env.closeFail)
           IN IF c.outcome = "raise"
              THEN Raise(c.s, c.exc, c.events \o <<Ev("logger.error", None)>>)
              ELSE Return([c.s EXCEPT !.jump = None], "None", <<>>,
                          c.events \o <<Ev("logger.info", None)>>)
      ELSE Return(s, "None", <<>>, <<Ev("logger.warning", None)>>))

\* Mutation of jumphost_disconnect: a cached target is closed and dropped
\* before the jump host.
jumphost_disconnect_target_first(s, env) ==
    Call("jumphost_disconnect",
      LET t == IF s.target # None /\ s.target \notin env.closeFail
               THEN Return([LibClose(s, s.target, {}).s EXCEPT !.target = None], "None", <<>>,
                           <<Ev("close", s.target)>>)
               ELSE Return(s, "None", <<>>, <<>>)
      IN IF s.jump # None
         THEN LET c == LibClose(t.s, s.jump, env.closeFail)
              IN IF c.outcome = "raise"
                 THEN Return(c.s, "None", <<>>,
                             t.events \o c.events \o <<Ev("logger.error", None)>>)
                 ELSE Return([c.s EXCEPT !.jump = None], "None", <<>>,
                             t.events \o c.events \o <<Ev("logger.info", None)>>)
         ELSE Return(t.s, "None", <<>>, t.events \o <<Ev("logger.warning", None)>>))

\* jumphost_disconnect()
jumphost_disconnect(s, env) ==
    Call("jumphost_disconnect",
      IF s.jump # None
      THEN LET c == LibClose(s, s.jump, env.closeFail)
           IN IF c.outcome = "raise"
              THEN Return(c.s, "None", <<>>, c.events \o <<Ev("logger.error", None)>>)
              ELSE Return([c.s EXCEPT !.jump = None], "None", <<>>,
                          c.events \o <<Ev("logger.info", None)>>)
      ELSE Return(s, "None", <<>>, <<Ev("logger.warning", None)>>))

\* Arguments of the target side of a tunnel (dst_host, dst_username,
\* dst_password, dst_port).
DstArgs(h, u, p, port) ==
    [dst_host |-> h, dst_username |-> u, dst_password |-> p, dst_port |-> port]

\* An empty statement.
Pass(s) == Return(s, "None", <<>>, <<>>)

\* The except clause of jumphost_transport_connect: log, close target if the
\* name is bound, close jumphost if the name is bound, re-raise. The closes
\* are not guarded: one that raises ends the clause with its own exception.
transport_cleanup(s, exc, target, jumphost, closeFail) ==
    LET logged  == Return(s, "None", <<>>, <<Ev("logger.error", None)>>)
        closedT == Then(logged,
                        IF target # None THEN LibClose(logged.s, target, closeFail)
                        ELSE Pass(logged.s))
        closedJ == Then(closedT,
                        IF jumphost # None THEN LibClose(closedT.s, jumphost, closeFail)
                        ELSE Pass(closedT.s))
    IN Then(closedJ, Raise(closedJ.s, exc, <<>>))

\* Mutation of jumphost_transport_connect: the cache check comes before the
\* dst_host check, so a cached pair is returned for an empty dst_host.
jumphost_transport_connect_cache_first(s, a, d, env) ==
    Call("jumphost_transport_connect",
      IF s.target # None /\ s.jump # None
      THEN Return(s, "pair", <<s.target, s.jump>>, <<Ev("logger.info", None)>>)
      ELSE IF Falsy(d.dst_host)
      THEN Raise(s, "ValueError", <<>>)
      ELSE
        LET jumphost == NewHandle(s)
            s1 == Construct(s, "SSHClient")
            e1 == <<Ev("logger.info", None), EvNew("SSHClient", jumphost, a),
                    Ev("connect", jumphost)>>
        IN IF env.fail = "connect"
           THEN Then(Return(s1, "None", <<>>, e1 \o <<Ev(env.exc, jumphost)>>),
                     transport_cleanup(s1, env.exc, None, jumphost, env.closeFail))
           ELSE
        LET s2 == [s1 EXCEPT !.handles[jumphost].st = "open"]
            e2 == e1 \o <<Ev("logger.info", None), Ev("open_channel", jumphost)>>
        IN IF env.fail = "open_channel"
           THEN Then(Return(s2, "None", <<>>, e2 \o <<Ev(env.exc, jumphost)>>),
                     transport_cleanup(s2, env.exc, None, jumphost, env.closeFail))
           ELSE
        LET target == NewHandle(s2)
            s3 == Construct(s2, "SSHClient")
            e3 == e2 \o <<Ev("logger.info", None), EvNew("SSHClient", target, d),
                          Ev("connect", target)>>
        IN IF env.fail = "target_connect"
           THEN Then(Return(s3, "None", <<>>, e3 \o <<Ev(env.exc, target)>>),
                     transport_cleanup(s3, env.exc, target, jumphost, env.closeFail))
           ELSE Return([s3 EXCEPT !.handles[target].st = "open",
                                  !.target = target, !.jump = jumphost],
                       "pair", <<target, jumphost>>, e3 \o <<Ev("logger.info", None)>>))

\* jumphost_transport_connect(hostname, username, password, port, dst_host,
\* dst_username, dst_password, dst_port). env.fail names the library call
\* that raises env.exc: "connect" (jumphost.connect), "open_channel"
\* (get_transport / open_channel) or "target_connect" (target.connect).
jumphost_transport_connect(s, a, d, env) ==
    Call("jumphost_transport_connect",
      IF Falsy(d.dst_host)
      THEN Raise(s, "ValueError", <<>>)
      ELSE IF s.target # None /\ s.jump # None
      THEN Return(s, "pair", <<s.target, s.jump>>, <<Ev("logger.info", None)>>)
      ELSE
        LET jumphost == NewHandle(s)
            s1 == Construct(s, "SSHClient")
            e1 == <<Ev("logger.info", None), EvNew("SSHClient", jumphost, a),
                    Ev("connect", jumphost)>>
        IN IF env.fail = "connect"
           THEN Then(Return(s1, "None", <<>>, e1 \o <<Ev(env.exc, jumphost)>>),
                     transport_cleanup(s1, env.exc, None, jumphost, env.closeFail))
           ELSE
        LET s2 == [s1 EXCEPT !.handles[jumphost].st = "open"]
            e2 == e1 \o <<Ev("logger.info", None), Ev("open_channel", jumphost)>>
        IN IF env.fail = "open_channel"
           THEN Then(Return(s2, "None", <<>>, e2 \o <<Ev(env.exc, jumphost)>>),
                     transport_cleanup(s2, env.exc, None, jumphost, env.closeFail))
           ELSE
        LET target == NewHandle(s2)
            s3 == Construct(s2, "SSHClient")
            e3 == e2 \o <<Ev("logger.info", None), EvNew("SSHClient", target, d),
                          Ev("connect", target)>>
        IN IF env.fail = "target_connect"
           THEN Then(Return(s3, "None", <<>>, e3 \o <<Ev(env.exc, target)>>),
                     transport_cleanup(s3, env.exc, target, jumphost, env.closeFail))
           ELSE Return([s3 EXCEPT !.handles[target].st = "open",
                                  !.target = target, !.jump = jumphost],
                       "pair", <<target, jumphost>>, e3 \o <<Ev("logger.info", None)>>))

\* Mutation of jumphost_transport_disconnect: one try around both closes, so
\* a target close() that raises skips the jump host's.
jumphost_transport_disconnect_one_try(s, env) ==
    Call("jumphost_transport_disconnect",
      LET t == IF s.target # None
               THEN LET c == LibClose(s, s.target, env.closeFail)
                    IN IF c.outcome = "raise" THEN c
                       ELSE Return([c.s EXCEPT !.target = None], "None", <<>>,
                                   c.events \o <<Ev("logger.info", None)>>)
               ELSE Pass(s)
          j == Then(t,
                 IF t.s.jump # None
                 THEN LET c == LibClose(t.s, t.s.jump, env.closeFail)
                      IN IF c.outcome = "raise" THEN c
                         ELSE Return([c.s EXCEPT !.jump = None], "None", <<>>,
                                     c.events \o <<Ev("logger.info", None)>>)
                 ELSE Pass(t.s))
      IN IF j.outcome = "raise"
         THEN Return(j.s, "None", <<>>, j.events \o <<Ev("logger.error", None)>>)
         ELSE j)

\* Mutation of jumphost_transport_disconnect: the jump host is closed but
\* its slot is not cleared.
jumphost_transport_disconnect_keep_jump(s, env) ==
    Call("jumphost_transport_disconnect",
      LET t == IF s.target # None
               THEN LET c == LibClose(s, s.target, env.closeFail)
                    IN IF c.outcome = "raise"
                       THEN Return(c.s, "None", <<>>, c.events \o <<Ev("logger.error", None)>>)
                       ELSE Return([c.s EXCEPT !.target = None], "None", <<>>,
                                   c.events \o <<Ev("logger.info", None)>>)
               ELSE Pass(s)
      IN Then(t,
           IF t.s.jump # None
           THEN LET c == LibClose(t.s, t.s.jump, env.closeFail)
                IN IF c.outcome = "raise"
                   THEN Return(c.s, "None", <<>>, c.events \o <<Ev("logger.error", None)>>)
                   ELSE Return(c.s, "None", <<>>, c.events \o <<Ev("logger.info", None)>>)
           ELSE Pass(t.s)))

\* jumphost_transport_disconnect(): two separate guarded blocks, target
\* first; neither has an else branch.
jumphost_transport_disconnect(s, env) ==
    Call("jumphost_transport_disconnect",
      LET t == IF s.target # None
               THEN LET c == LibClose(s, s.target, env.closeFail)
                    IN IF c.outcome = "raise"
                       THEN Return(c.s, "None", <<>>, c.events \o <<Ev("logger.error", None)>>)
                       ELSE Return([c.s EXCEPT !.target = None], "None", <<>>,
                                   c.events \o <<Ev("logger.info", None)>>)
               ELSE Pass(s)
      IN Then(t,
           IF t.s.jump # None
           THEN LET c == LibClose(t.s, t.s.jump, env.closeFail)
                IN IF c.outcome = "raise"
                   THEN Return(c.s, "None", <<>>, c.events \o <<Ev("logger.error", None)>>)
                   ELSE Return([c.s EXCEPT !.jump = None], "None", <<>>,
                               c.events \o <<Ev("logger.info", None)>>)
           ELSE Pass(t.s)))

----------------------------------------------------------------------------
(* File transfer *)

\* os.path.exists(path) against the local files the environment provides.
os_path_exists(path, env) == path \in env.files

\* Mutation of copy_file_local_to_remote: the existence check comes after
\* the jump host is obtained, inside the try.
copy_file_local_to_remote_late_check(s, src_path, dst_path, use_jumphost, env) ==
    Call("copy_file_local_to_remote",
      IF Falsy(src_path) \/ Falsy(dst_path)
      THEN Return(s, "False", <<>>, <<Ev("logger.error", None)>>)
      ELSE IF use_jumphost
      THEN LET j == jumphost_connect(s, DefaultConnArgs, env)
               e == <<Ev("logger.info", None)>> \o j.events
           IN IF j.outcome = "raise"
              THEN Raise(j.s, j.exc, e \o <<Ev("logger.error", None)>>)
              ELSE IF ~ os_path_exists(src_path, env)
              THEN Raise(j.s, "FileNotFoundError",
                         e \o <<Ev("os.path.exists", None), Ev("logger.error", None)>>)
              ELSE IF env.fail = "scp"
              THEN Raise(j.s, env.exc, e \o <<Ev("scp.put", j.ret[1]), Ev(env.exc, j.ret[1]),
                                               Ev("logger.error", None)>>)
              ELSE Return(j.s, "True", <<>>,
                          e \o <<Ev("scp.put", j.ret[1]), Ev("logger.info", None)>>)
      ELSE Return(s, "False", <<>>, <<Ev("logger.error", None)>>))

\* Mutation of copy_file_local_to_remote: the jump-host session is closed
\* and dropped once the transfer has ended, as for a session of its own.
copy_file_local_to_remote_close_after(s, src_path, dst_path, use_jumphost, env) ==
    Call("copy_file_local_to_remote",
      IF Falsy(src_path) \/ Falsy(dst_path)
      THEN Return(s, "False", <<>>, <<Ev("logger.error", None)>>)
      ELSE IF ~ os_path_exists(src_path, env)
      THEN Raise(s, "FileNotFoundError", <<Ev("os.path.exists", None)>>)
      ELSE IF use_jumphost
      THEN LET j == jumphost_connect(s, DefaultConnArgs, env)
               e == <<Ev("os.path.exists", None), Ev("logger.info", None)>> \o j.events
               c == [LibClose(j.s, j.ret[1], {}).s EXCEPT !.jump = None]
           IN IF j.outcome = "raise"
              THEN Raise(j.s, j.exc, e \o <<Ev("logger.error", None)>>)
              ELSE IF env.fail = "scp"
              THEN Raise(c, env.exc, e \o <<Ev("scp.put", j.ret[1]), Ev(env.exc, j.ret[1]),
                                             Ev("close", j.ret[1]), Ev("logger.error", None)>>)
              ELSE Return(c, "True", <<>>,
                          e \o <<Ev("scp.put", j.ret[1]), Ev("close", j.ret[1]),
                                 Ev("logger.info", None)>>)
      ELSE Return(s, "False", <<>>,
                  <<Ev("os.path.exists", None), Ev("logger.error", None)>>))

\* copy_file_local_to_remote(src_path, dst_path, use_jumphost): env.fail =
\* "scp" makes the SCPClient transfer raise env.exc.
copy_file_local_to_remote(s, src_path, dst_path, use_jumphost, env) ==
    Call("copy_file_local_to_remote",
      IF Falsy(src_path) \/ Falsy(dst_path)
      THEN Return(s, "False", <<>>, <<Ev("logger.error", None)>>)
      ELSE IF ~ os_path_exists(src_path, env)
      THEN Raise(s, "FileNotFoundError", <<Ev("os.path.exists", None)>>)
      ELSE IF use_jumphost
      THEN LET j == jumphost_connect(s, DefaultConnArgs, env)
               e == <<Ev("os.path.exists", None), Ev("logger.info", None)>> \o j.events
           IN IF j.outcome = "raise"
              THEN Raise(j.s, j.exc, e \o <<Ev("logger.error", None)>>)
              ELSE IF env.fail = "scp"
              THEN Raise(j.s, env.exc, e \o <<Ev("scp.put", j.ret[1]), Ev(env.exc, j.ret[1]),
                                               Ev("logger.error", None)>>)
              ELSE Return(j.s, "True", <<>>,
                          e \o <<Ev("scp.put", j.ret[1]), Ev("logger.info", None)>>)
      ELSE Return(s, "False", <<>>,
                  <<Ev("os.path.exists", None), Ev("logger.error", None)>>))

\* Mutation of copy_file_remote_to_local: use_jumphost is not tested, the
\* transfer always goes via the jump host.
copy_file_remote_to_local_always_jump(s, src_path, dst_path, use_jumphost, env) ==
    Call("copy_file_remote_to_local",
      IF Falsy(src_path) \/ Falsy(dst_path)
      THEN Return(s, "False", <<>>, <<Ev("logger.error", None)>>)
      ELSE LET j == jumphost_connect(s, DefaultConnArgs, env)
               e == <<Ev("logger.info", None)>> \o j.events
           IN IF j.outcome = "raise"
              THEN Raise(j.s, j.exc, e \o <<Ev("logger.error", None)>>)
              ELSE IF env.fail = "scp"
              THEN Raise(j.s, env.exc, e \o <<Ev("scp.get", j.ret[1]), Ev(env.exc, j.ret[1]),
                                               Ev("logger.error", None)>>)
              ELSE Return(j.s, "True", <<>>,
                          e \o <<Ev("scp.get", j.ret[1]), Ev("logger.info", None)>>))

\* Mutation of copy_file_remote_to_local: the paths are checked only once
\* the jump host is connected and the transfer is about to start.
copy_file_remote_to_local_check_after_connect(s, src_path, dst_path, use_jumphost, env) ==
    Call("copy_file_remote_to_local",
      IF use_jumphost
      THEN LET j == jumphost_connect(s, DefaultConnArgs, env)
               e == <<Ev("logger.info", None)>> \o j.events
           IN IF j.outcome = "raise"
              THEN Raise(j.s, j.exc, e \o <<Ev("logger.error", None)>>)
              ELSE IF Falsy(src_path) \/ Falsy(dst_path)
              THEN Return(j.s, "False", <<>>, e \o <<Ev("logger.error", None)>>)
              ELSE IF env.fail = "scp"
              THEN Raise(j.s, env.exc, e \o <<Ev("scp.get", j.ret[1]), Ev(env.exc, j.ret[1]),
                                               Ev("logger.error", None)>>)
              ELSE Return(j.s, "True", <<>>,
                          e \o <<Ev("scp.get", j.ret[1]), Ev("logger.info", None)>>)
      ELSE Return(s, "False", <<>>, <<Ev("logger.error", None)>>))

\* copy_file_remote_to_local(src_path, dst_path, use_jumphost): as above,
\* without the local existence check.
copy_file_remote_to_local(s, src_path, dst_path, use_jumphost, env) ==
    Call("copy_file_remote_to_local",
      IF Falsy(src_path) \/ Falsy(dst_path)
      THEN Return(s, "False", <<>>, <<Ev("logger.error", None)>>)
      ELSE IF use_jumphost
      THEN LET j == jumphost_connect(s, DefaultConnArgs, env)
               e == <<Ev("logger.info", None)>> \o j.events
           IN IF j.outcome = "raise"
              THEN Raise(j.s, j.exc, e \o <<Ev("logger.error", None)>>)
              ELSE IF env.fail = "scp"
              THEN Raise(j.s, env.exc, e \o <<Ev("scp.get", j.ret[1]), Ev(env.exc, j.ret[1]),
                                               Ev("logger.error", None)>>)
              ELSE Return(j.s, "True", <<>>,
                          e \o <<Ev("scp.get", j.ret[1]), Ev("logger.info", None)>>)
      ELSE Return(s, "False", <<>>, <<Ev("logger.error", None)>>))

----------------------------------------------------------------------------
(* Email *)

\* Bound: the length of attach_list.
MaxAttach == 2

\* Default value of smtp_port.
DefaultSmtpPort == 25

\* The required parameters, in the order of the dict literal that the
\* validation iterates over.
RequiredParams == <<"email_from", "email_to", "email_subject", "greeting", "email_body">>

\* [param for param, value in {...}.items() if not value]
RECURSIVE MissingOf(_, _)
MissingOf(a, params) ==
    IF params = <<>> THEN <<>>
    ELSE (IF Falsy(a[Head(params)]) THEN <<Head(params)>> ELSE <<>>)
         \o MissingOf(a, Tail(params))

\* sep.join(names)
RECURSIVE StrJoin(_, _)
StrJoin(sep, names) ==
    IF names = <<>> THEN ""
    ELSE IF Len(names) = 1 THEN names[1]
    ELSE names[1] \o sep \o StrJoin(sep, Tail(names))

\* Attachment names that are absolute paths.
AbsoluteNames == {"/b.txt"}

\* os.path.join(attach_path, filename): an absolute filename replaces the
\* directory.
os_path_join(attach_path, filename) ==
    IF filename \in AbsoluteNames THEN filename ELSE attach_path \o "/" \o filename

\* An entry of the trace that carries data: the exception message, the file
\* opened, the relay address, the message sent.
EvData(name, data) == [ev |-> name, h |-> None, data |-> data]

\* Mutation of attach_files: a missing attachment ends the loop instead of
\* being skipped (break for continue).
RECURSIVE attach_files_break(_, _, _)
attach_files_break(attach_path, names, env) ==
    IF names = <<>> THEN [raised |-> FALSE, attached |-> <<>>, events |-> <<>>]
    ELSE LET filename  == Head(names)
             file_path == os_path_join(attach_path, filename)
         IN IF ~ os_path_exists(file_path, env)
            THEN [raised |-> FALSE, attached |-> <<>>,
                  events |-> <<Ev("logger.warning", None)>>]
            ELSE IF file_path \in env.unreadable
            THEN [raised |-> TRUE, attached |-> <<>>,
                  events |-> <<EvData("open", file_path), Ev("OSError", None)>>]
            ELSE LET rest == attach_files_break(attach_path, Tail(names), env)
                 IN [rest EXCEPT !.attached = <<filename>> \o @,
                                 !.events = <<EvData("open", file_path),
                                              Ev("logger.debug", None)>> \o @]

\* The attachment loop: a name whose joined path does not exist is skipped
\* with a warning; any other is opened and read (which raises for the paths
\* in env.unreadable) and attached under its name.
RECURSIVE attach_files(_, _, _)
attach_files(attach_path, names, env) ==
    IF names = <<>> THEN [raised |-> FALSE, attached |-> <<>>, events |-> <<>>]
    ELSE LET filename  == Head(names)
             file_path == os_path_join(attach_path, filename)
         IN IF ~ os_path_exists(file_path, env)
            THEN LET rest == attach_files(attach_path, Tail(names), env)
                 IN [rest EXCEPT !.events = <<Ev("logger.warning", None)>> \o @]
            ELSE IF file_path \in env.unreadable
            THEN [raised |-> TRUE, attached |-> <<>>,
                  events |-> <<EvData("open", file_path), Ev("OSError", None)>>]
            ELSE LET rest == attach_files(attach_path, Tail(names), env)
                 IN [rest EXCEPT !.attached = <<filename>> \o @,
                                 !.events = <<EvData("open", file_path),
                                              Ev("logger.debug", None)>> \o @]

\* Mutation of missing_parameters_error: only the first missing parameter is
\* named.
missing_parameters_error_first(s, missing) ==
    Raise(s, "ValueError",
          <<EvData("ValueError",
                   [missing |-> <<Head(missing)>>,
                    message |-> "Missing required email parameters: " \o Head(missing)])>>)

\* The ValueError of the validation: its message names the missing
\* parameters, joined with ", ".
missing_parameters_error(s, missing) ==
    Raise(s, "ValueError",
          <<EvData("ValueError",
                   [missing |-> missing,
                    message |-> "Missing required email parameters: "
                                \o StrJoin(", ", missing)])>>)

\* send_email(email_from, email_to, email_subject, email_body, greeting,
\* cc_emails, destination_path, attach_list, smtp_server, smtp_port).
\* The message is recorded by its headers, the parts of its HTML body and
\* the names of its attachments; the Date header is left out. env.fail makes
\* the relay connection ("smtp_connect") or the delivery ("send_message")
\* raise env.exc. Every exception inside the try is logged and re-raised.
send_email(s, a, env) ==
    Call("send_email",
      LET missing == MissingOf(a, RequiredParams)
      IN IF missing # <<>>
         THEN missing_parameters_error(s, missing)
         ELSE
      LET email_footer == _get_config(s, "email_data", "email_footer", "")
          att == IF a.attach_list # <<>> /\ ~Falsy(a.destination_path)
                 THEN attach_files(a.destination_path, a.attach_list, env)
                 ELSE [raised |-> FALSE, attached |-> <<>>, events |-> <<>>]
          msg == [From |-> a.email_from, To |-> a.email_to, Subject |-> a.email_subject,
                  Cc |-> IF a.cc_emails # <<>> THEN <<StrJoin(", ", a.cc_emails)>> ELSE <<>>,
                  greeting |-> a.greeting, body |-> a.email_body,
                  footer |-> email_footer, attachments |-> att.attached]
          e1 == <<Ev("logger.info", None)>>
                \o (IF a.attach_list # <<>> /\ ~Falsy(a.destination_path)
                    THEN <<Ev("logger.info", None)>> ELSE <<>>)
                \o att.events
          relay == [smtp_server |-> a.smtp_server, smtp_port |-> a.smtp_port]
      IN IF att.raised
         THEN Raise(s, "OSError", e1 \o <<Ev("logger.error", None)>>)
         ELSE IF env.fail = "smtp_connect"
         THEN Raise(s, env.exc, e1 \o <<Ev("logger.info", None), EvData("smtplib.SMTP", relay),
                                        Ev(env.exc, None), Ev("logger.error", None)>>)
         ELSE IF env.fail = "send_message"
         THEN Raise(s, env.exc, e1 \o <<Ev("logger.info", None), EvData("smtplib.SMTP", relay),
                                        EvData("send_message", msg), Ev(env.exc, None),
                                        Ev("logger.error", None)>>)
         ELSE Return(s, "True", <<>>,
                     e1 \o <<Ev("logger.info", None), EvData("smtplib.SMTP", relay),
                             EvData("send_message", msg), Ev("logger.info", None)>>))

----------------------------------------------------------------------------
(* Teardown and the context manager *)

\* close_all_connections(): the three closes in sequence, no try around them.
close_all_connections(s, env) ==
    Call("close_all_connections",
      LET r0 == Return(s, "None", <<>>, <<Ev("logger.info", None)>>)
          r1 == Then(r0, junos_close_connection(r0.s, env))
          r2 == Then(r1, jumphost_transport_disconnect(r1.s, env))
          r3 == Then(r2, jumphost_disconnect(r2.s, env))
      IN Then(r3, Return(r3.s, "None", <<>>, <<Ev("logger.info", None)>>)))

\* Mutation of __exit__: it returns True.
__exit___returns_true(s, exc_type, env) ==
    Call("__exit__",
      LET c == close_all_connections(s, env)
      IN Then(c, Return(c.s, "True", <<>>, <<>>)))

\* __exit__(exc_type, exc_val, exc_tb): runs the teardown and returns None,
\* whatever the block's exception (exc_type) is.
__exit__(s, exc_type, env) ==
    Call("__exit__",
      LET c == close_all_connections(s, env)
      IN Then(c, Return(c.s, "None", <<>>, <<>>)))

\* A with block over the manager, from the end of its body: the body left
\* normally (exc_type = NoneStr) or by raising exc_type. The body's
\* exception propagates unless __exit__ returned a true value; an exception
\* out of __exit__ itself replaces it.
with_block_exit(s, exc_type, env) ==
    LET x == __exit__(s, exc_type, env)
    IN IF x.outcome = "raise" THEN x
       ELSE IF exc_type # NoneStr /\ x.kind # "True" THEN Raise(x.s, exc_type, x.events)
       ELSE x

----------------------------------------------------------------------------
(* Inputs and environment choices *)

\* Argument values a caller passes.
ConnArgsSet ==
    {DefaultConnArgs, ConnArgs("h", "u", "p", DefaultPort)}
DstArgsSet ==
    {DstArgs(NoneStr, NoneStr, NoneStr, DefaultPort), DstArgs("", "tu", "tp", DefaultPort),
     DstArgs("t", "tu", "tp", DefaultPort)}
Paths == {"", "a.txt"}

\* Exceptions the client libraries raise.
JunosExcs == {"ConnectAuthError", "Exception"}
SshExcs   == {"AuthenticationException", "Exception"}

\* What the environment decides for one call: which library call raises what
\* (fail, exc), for which handles close() raises, which local files exist.
Env(fail, exc, closeFail, files) ==
    [fail |-> fail, exc |-> exc, closeFail |-> closeFail, files |-> files]
OpenEnvs(fails, excs) ==
    {Env("none", NoneStr, {}, {})} \cup {Env(f, e, {}, {}) : f \in fails, e \in excs}
\* close() can only fail on a handle the call closes: a cached one (close
\* methods) or one the call itself constructs (tunnel set-up).
Cached(s) == {s.dev, s.jump, s.target} \ {None}
CloseEnvs(s) == {Env("none", NoneStr, cf, {}) : cf \in SUBSET Cached(s)}
TunnelEnvs(s) ==
    {Env("none", NoneStr, {}, {})} \cup
    {Env(f, e, cf, {}) : f \in {"connect", "open_channel"}, e \in SshExcs,
                         cf \in SUBSET {NewHandle(s)}} \cup
    {Env("target_connect", e, cf, {}) : e \in SshExcs,
                                        cf \in SUBSET {NewHandle(s), NewHandle(s) + 1}}
CopyEnvs ==
    {Env(f[1], f[2], {}, fs) :
        f \in {<<"none", NoneStr>>, <<"connect", "AuthenticationException">>,
               <<"scp", "SCPException">>},
        fs \in {{}, {"a.txt"}}}

----------------------------------------------------------------------------
(* Threads calling the open and close methods of one manager *)

Threads == {"t1", "t2", "t3", "t4"}

\* The methods the threads call, the slot each works on and the class of
\* the client object it constructs.
ThreadOpens == {"junos_open_connection", "jumphost_connect"}
ThreadCloses == {"junos_close_connection", "jumphost_disconnect"}
SlotOf(op) ==
    IF op \in {"junos_open_connection", "junos_close_connection"} THEN "dev" ELSE "jump"
ClassOf(op) == IF SlotOf(op) = "dev" THEN "Device" ELSE "SSHClient"

\* A thread: the method it is in (op), the statement it is at (pc), the
\* client object in its local variable (local), what the call returned or
\* raised (outcome, ret) and the object its close() call closed (closed).
IdleThread ==
    [op |-> NoneStr, pc |-> "idle", local |-> None, outcome |-> NoneStr, ret |-> None,
     closed |-> None]

\* Mutation of store_session: the assignment closes the session the slot
\* held before.
store_session_close_previous(s, slot, h) ==
    LET old == s[slot]
    IN [s EXCEPT ![slot] = h,
                 !.handles = IF old # None /\ old # h
                             THEN [@ EXCEPT ![old].st = "closed"] ELSE @]

\* self._junos_device = dev, self._jumphost_client = jumphost_client: the
\* slot takes the new object; the one it held is not touched.
store_session(s, slot, h) == [s EXCEPT ![slot] = h]

----------------------------------------------------------------------------
(* State machine *)

Slots(s) == [dev |-> s.dev, jump |-> s.jump, target |-> s.target]

\* Reference counting: a client object that no slot holds once the call has
\* ended is unreachable to the program. It stays in the model while it holds
\* a connection (st = "open"); otherwise it is reclaimed.
Reclaimed == [class |-> "-", st |-> "reclaimed"]
Reclaim(s) ==
    [i \in DOMAIN s.handles |->
        IF i \in Cached(s) \/ s.handles[i].st = "open" THEN s.handles[i] ELSE Reclaimed]

\* The call op(args) ended with result r: the manager takes r's state, and
\* the call is recorded with the slots it started from. twice tells that the
\* call before it was the same method and returned; before is what that
\* call returned; first tells that the call is the first one after
\* construction.
Commit(op, args, r) ==
    /\ Len(r.s.handles) <= MaxHandles
    /\ _junos_device' = r.s.dev
    /\ _jumphost_client' = r.s.jump
    /\ _target_client' = r.s.target
    /\ handles' = Reclaim(r.s)
    /\ config' = r.s.config
    /\ UNCHANGED threads
    /\ last' = [op |-> op, args |-> args, pre |-> Slots(Self), outcome |-> r.outcome,
                kind |-> r.kind, ret |-> r.ret, exc |-> r.exc, events |-> r.events,
                twice |-> (last.op = op /\ last.outcome = "return"),
                before |-> IF last.op = op /\ last.outcome = "return" THEN last.ret ELSE <<>>,
                first |-> last.op = "__init__"]

\* The manager as __init__(config_file) leaves it. pending is the call the
\* caller goes on to make, when the run is about that one call (else <<>>).
ManagerAfterInit(config_file, pending) ==
    LET r == __init__(config_file)
    IN /\ _junos_device = r.s.dev
       /\ _jumphost_client = r.s.jump
       /\ _target_client = r.s.target
       /\ handles = r.s.handles
       /\ config = r.s.config
       /\ threads = [t \in Threads |-> IdleThread]
       /\ last = [op |-> "__init__",
                  args |-> [config_file |-> config_file, pending |-> pending],
                  pre |-> Slots(r.s), outcome |-> r.outcome, kind |-> r.kind,
                  ret |-> r.ret, exc |-> r.exc, events |-> r.events,
                  twice |-> FALSE, before |-> <<>>, first |-> FALSE]

\* A manager constructed where no ./_config.ini exists.
Init == ManagerAfterInit(NoConfigFile, <<>>)

JunosOpenConnection ==
    \E a \in ConnArgsSet, env \in OpenEnvs({"open"}, JunosExcs) :
        Commit("junos_open_connection", a, junos_open_connection(Self, a, env))

JunosCloseConnection ==
    \E env \in CloseEnvs(Self) :
        Commit("junos_close_connection", <<>>, junos_close_connection(Self, env))

ConnectJunosShell ==
    \E env \in OpenEnvs({"open"}, JunosExcs) :
        Commit("connect_junos_shell", <<>>, connect_junos_shell(Self, env))

JumphostConnect ==
    \E a \in ConnArgsSet, env \in OpenEnvs({"connect"}, SshExcs) :
        Commit("jumphost_connect", a, jumphost_connect(Self, a, env))

JumphostDisconnect ==
    \E env \in CloseEnvs(Self) :
        Commit("jumphost_disconnect", <<>>, jumphost_disconnect(Self, env))

JumphostTransportConnect ==
    \E a \in ConnArgsSet, d \in DstArgsSet, env \in TunnelEnvs(Self) :
        Commit("jumphost_transport_connect", [conn |-> a, dst |-> d],
               jumphost_transport_connect(Self, a, d, env))

JumphostTransportDisconnect ==
    \E env \in CloseEnvs(Self) :
        Commit("jumphost_transport_disconnect", <<>>,
               jumphost_transport_disconnect(Self, env))

CopyFileLocalToRemote ==
    \E src \in Paths, dst \in Paths, uj \in BOOLEAN, env \in CopyEnvs :
        Commit("copy_file_local_to_remote",
               [src_path |-> src, dst_path |-> dst, use_jumphost |-> uj,
                src_exists |-> os_path_exists(src, env)],
               copy_file_local_to_remote(Self, src, dst, uj, env))

CopyFileRemoteToLocal ==
    \E src \in Paths, dst \in Paths, uj \in BOOLEAN, env \in CopyEnvs :
        Commit("copy_file_remote_to_local",
               [src_path |-> src, dst_path |-> dst, use_jumphost |-> uj],
               copy_file_remote_to_local(Self, src, dst, uj, env))

CloseAllConnections ==
    \E env \in CloseEnvs(Self) :
        Commit("close_all_connections", <<>>, close_all_connections(Self, env))

WithBlockExit ==
    \E exc_type \in {NoneStr, "BlockError"}, env \in CloseEnvs(Self) :
        Commit("__exit__", [exc_type |-> exc_type], with_block_exit(Self, exc_type, env))

Next ==
    \/ JunosOpenConnection
    \/ JunosCloseConnection
    \/ ConnectJunosShell
    \/ JumphostConnect
    \/ JumphostDisconnect
    \/ JumphostTransportConnect
    \/ JumphostTransportDisconnect
    \/ CopyFileLocalToRemote
    \/ CopyFileRemoteToLocal
    \/ CloseAllConnections
    \/ WithBlockExit

Spec == Init /\ [][Next]_vars

----------------------------------------------------------------------------
(* One send_email call on a newly constructed manager *)

\* Arguments of send_email.
EmailArgs(from, to, subject, body, greeting, cc, dir, attach) ==
    [email_from |-> from, email_to |-> to, email_subject |-> subject, email_body |-> body,
     greeting |-> greeting, cc_emails |-> cc, destination_path |-> dir,
     attach_list |-> attach, smtp_server |-> "localhost", smtp_port |-> DefaultSmtpPort]

AttachNames == {"a.txt", "/b.txt"}
AttachLists == UNION {[1..n -> AttachNames] : n \in 0..MaxAttach}

\* Calls with every required parameter given, over all the optional ones;
\* and calls over all the ways the required ones can be empty or missing.
EmailInputs ==
    {EmailArgs("me@x", "you@x", "subject", "body", "Hello", cc, dir, attach) :
        cc \in {<<>>, <<"c1@x", "c2@x">>}, dir \in {NoneStr, "dir"}, attach \in AttachLists}
    \cup
    {EmailArgs(from, to, subject, body, greeting, <<>>, "dir", <<"a.txt">>) :
        from \in {NoneStr, "", "me@x"}, to \in {"", "you@x"}, subject \in {"", "subject"},
        body \in {"", "body"}, greeting \in {"", "Hello"}}

\* What the environment decides for the call: which files exist, which of
\* them cannot be read, whether the relay refuses.
EmailEnvs ==
    {[files |-> fs, unreadable |-> ur, fail |-> f[1], exc |-> f[2]] :
        fs \in SUBSET {"dir/a.txt", "/b.txt"}, ur \in SUBSET {"dir/a.txt"},
        f \in {<<"none", NoneStr>>, <<"smtp_connect", "ConnectionRefusedError">>,
               <<"send_message", "SMTPException">>}}

ConfigFiles ==
    {NoConfigFile, ConfigFile(<<"email_data", "email_footer">> :> "footer")}

InitEmail ==
    \E cf \in ConfigFiles, a \in EmailInputs, env \in EmailEnvs :
        /\ env.unreadable \subseteq env.files
        /\ ManagerAfterInit(cf, [args |-> a, env |-> env])

SendEmail ==
    /\ last.op = "__init__"
    /\ last.args.pending # <<>>
    /\ Commit("send_email", last.args.pending,
              send_email(Self, last.args.pending.args, last.args.pending.env))

NextEmail == SendEmail

SpecEmail == InitEmail /\ [][NextEmail]_vars

----------------------------------------------------------------------------
(* Concurrent calls: one step per statement that reads or writes a slot *)

\* The thread's record changes, the manager takes state s.
ThreadStep(t, rec, s) ==
    /\ threads' = [threads EXCEPT ![t] = rec]
    /\ _junos_device' = s.dev
    /\ _jumphost_client' = s.jump
    /\ _target_client' = s.target
    /\ handles' = s.handles
    /\ UNCHANGED <<config, last>>

\* A thread calls one of the four methods.
ThreadCall(t) ==
    /\ threads[t].pc = "idle"
    /\ \E op \in ThreadOpens \cup ThreadCloses :
          ThreadStep(t, [threads[t] EXCEPT !.op = op, !.pc = "check"], Self)

\* if self._slot is not None (open methods).
OpenCheck(t) ==
    LET th == threads[t]
    IN /\ th.pc = "check"
       /\ th.op \in ThreadOpens
       /\ ThreadStep(t, [th EXCEPT !.pc = IF Self[SlotOf(th.op)] # None
                                          THEN "return_cached" ELSE "connect"], Self)

\* return self._slot: the slot is read again.
OpenReturnCached(t) ==
    LET th == threads[t]
    IN /\ th.pc = "return_cached"
       /\ ThreadStep(t, [th EXCEPT !.pc = "done", !.outcome = "return",
                                   !.ret = Self[SlotOf(th.op)]], Self)

\* The client object is constructed and connected; the handshake raises or
\* returns.
OpenConnect(t) ==
    LET th == threads[t]
        h == NewHandle(Self)
    IN /\ th.pc = "connect"
       /\ h <= MaxHandles
       /\ \E ok \in BOOLEAN :
             IF ok
             THEN ThreadStep(t, [th EXCEPT !.pc = "store", !.local = h],
                             [Self EXCEPT !.handles =
                                 Append(@, [class |-> ClassOf(th.op), st |-> "open"])])
             ELSE ThreadStep(t, [th EXCEPT !.pc = "done", !.outcome = "raise"],
                             [Self EXCEPT !.handles = Append(@, Reclaimed)])

\* self._slot = dev; return dev.
OpenStore(t) ==
    LET th == threads[t]
    IN /\ th.pc = "store"
       /\ ThreadStep(t, [th EXCEPT !.pc = "done", !.outcome = "return", !.ret = th.local],
                     store_session(Self, SlotOf(th.op), th.local))

\* if self._slot is not None (close methods); else a warning is logged.
CloseCheck(t) ==
    LET th == threads[t]
    IN /\ th.pc = "check"
       /\ th.op \in ThreadCloses
       /\ ThreadStep(t, IF Self[SlotOf(th.op)] = None
                        THEN [th EXCEPT !.pc = "done", !.outcome = "return"]
                        ELSE [th EXCEPT !.pc = IF th.op = "junos_close_connection"
                                               THEN "hostname" ELSE "close"],
                     Self)

\* hostname = self._junos_device.hostname: AttributeError when the slot has
\* become None, which the except clause logs.
CloseHostname(t) ==
    LET th == threads[t]
    IN /\ th.pc = "hostname"
       /\ ThreadStep(t, IF Self[SlotOf(th.op)] = None
                        THEN [th EXCEPT !.pc = "done", !.outcome = "return"]
                        ELSE [th EXCEPT !.pc = "close"],
                     Self)

\* self._slot.close(): on the object the slot holds now; AttributeError when
\* it has become None, and close() itself raises or returns.
CloseClose(t) ==
    LET th == threads[t]
        h == Self[SlotOf(th.op)]
    IN /\ th.pc = "close"
       /\ IF h = None
          THEN ThreadStep(t, [th EXCEPT !.pc = "done", !.outcome = "return"], Self)
          ELSE \E r \in {LibClose(Self, h, {}), LibClose(Self, h, {h})} :
                  IF r.outcome = "raise"
                  THEN ThreadStep(t, [th EXCEPT !.pc = "done", !.outcome = "return"], r.s)
                  ELSE ThreadStep(t, [th EXCEPT !.pc = "clear", !.closed = h], r.s)

\* self._slot = None.
CloseClear(t) ==
    LET th == threads[t]
    IN /\ th.pc = "clear"
       /\ ThreadStep(t, [th EXCEPT !.pc = "done", !.outcome = "return"],
                     store_session(Self, SlotOf(th.op), None))

\* The threads start on a manager that holds no session, or one that
\* single-threaded calls have left with a device or a jump-host session.
InitThreads ==
    \E pre \in SUBSET ThreadOpens :
        LET ok == Env("none", NoneStr, {}, {})
            s0 == __init__(NoConfigFile).s
            s1 == IF "junos_open_connection" \in pre
                  THEN junos_open_connection(s0, DefaultConnArgs, ok).s ELSE s0
            s2 == IF "jumphost_connect" \in pre
                  THEN jumphost_connect(s1, DefaultConnArgs, ok).s ELSE s1
        IN /\ _junos_device = s2.dev
           /\ _jumphost_client = s2.jump
           /\ _target_client = s2.target
           /\ handles = s2.handles
           /\ config = s2.config
           /\ threads = [t \in Threads |-> IdleThread]
           /\ last = [op |-> "threads", pre |-> Slots(s2)]

NextThreads ==
    \E t \in Threads :
        \/ ThreadCall(t)
        \/ OpenCheck(t)
        \/ OpenReturnCached(t)
        \/ OpenConnect(t)
        \/ OpenStore(t)
        \/ CloseCheck(t)
        \/ CloseHostname(t)
        \/ CloseClose(t)
        \/ CloseClear(t)

SpecThreads == InitThreads /\ [][NextThreads]_vars

----------------------------------------------------------------------------
(* Reading the record of a call *)

\* The call made the library call (or log record, or method entry) name on h.
HasEv(name, h) == \E i \in DOMAIN last.events : last.events[i] = Ev(name, h)

\* Positions of an entry in the trace.
Pos(name, h) == {i \in DOMAIN last.events : last.events[i] = Ev(name, h)}

\* Every entry (name1, h1) comes before every entry (name2, h2).
Before(name1, h1, name2, h2) ==
    \A i \in Pos(name1, h1), j \in Pos(name2, h2) : i < j

\* Handles of the client objects the call constructed.
Constructed ==
    {last.events[i].h : i \in {j \in DOMAIN last.events :
                                  last.events[j].ev \in {"Device", "SSHClient"}}}

\* The call made a network call: a handshake, a channel or a transfer.
Networked ==
    \E i \in DOMAIN last.events :
        last.events[i].ev \in {"open", "connect", "open_channel", "scp.put", "scp.get"}

\* The call left the three cache slots as it found them.
SlotsUnchanged == Slots(Self) = last.pre

\* The call logged at the given level.
Logged(level) == HasEv(level, None)

----------------------------------------------------------------------------
(* Connect / open operations *)

\* C1: when junos_open_connection, jumphost_connect or
\* jumphost_transport_connect (with a non-empty dst_host) is called right
\* after a successful call of the same method, with no call in between, it
\* returns the very handle(s) the first call returned, whatever its
\* arguments, and constructs no new client object.
C1_SecondOpenReturnsCached ==
    (/\ last.op \in {"junos_open_connection", "jumphost_connect", "jumphost_transport_connect"}
     /\ last.twice
     /\ last.op = "jumphost_transport_connect" => ~Falsy(last.args.dst.dst_host))
    => (/\ last.outcome = "return"
        /\ last.ret = last.before
        /\ Constructed = {}
        /\ ~Networked
        /\ SlotsUnchanged)

\* The second of two tunnel set-ups in a row, given explicit connection
\* arguments, returns the cached pair, whose jump host is still open.
C1_Witness ==
    /\ last.op = "jumphost_transport_connect"
    /\ last.twice
    /\ last.args.conn = ConnArgs("h", "u", "p", DefaultPort)
    /\ last.pre.target # None
    /\ \E i \in DOMAIN handles :
          /\ handles[i].st = "open"
          /\ i = last.pre.jump
    /\ last.ret = <<_target_client, _jumphost_client>>

----------------------------------------------------------------------------
(* Close operations and teardown *)

\* close() on handle h raised during the call.
CloseFailed(h) == HasEv("CloseError", h)

\* C2: leaving a with block, normally or by an exception, enters the three
\* teardown steps in the order junos_close_connection,
\* jumphost_transport_disconnect, jumphost_disconnect, also when the device
\* session's close() raises.
C2_ExitRunsThreeSteps ==
    last.op = "__exit__" =>
        /\ HasEv("close_all_connections", None)
        /\ Cardinality(Pos("junos_close_connection", None)) = 1
        /\ Cardinality(Pos("jumphost_transport_disconnect", None)) = 1
        /\ Cardinality(Pos("jumphost_disconnect", None)) = 1
        /\ Before("junos_close_connection", None, "jumphost_transport_disconnect", None)
        /\ Before("jumphost_transport_disconnect", None, "jumphost_disconnect", None)
        /\ last.pre.dev # None => HasEv("close", last.pre.dev)

\* A block left by an exception whose device close() raised, after which
\* the tunnel step and the jump-host step were entered.
C2_Witness ==
    /\ last.op = "__exit__"
    /\ last.args.exc_type = "BlockError"
    /\ last.pre.dev # None
    /\ CloseFailed(last.pre.dev)
    /\ last.pre.target # None
    /\ HasEv("jumphost_transport_disconnect", None)
    /\ HasEv("close", last.pre.target)
    /\ HasEv("jumphost_disconnect", None)

\* C3: when jumphost_transport_connect fails at jumphost.connect,
\* open_channel or target.connect, close() is attempted on every client
\* object it constructed and the exception that reaches the caller is the
\* one the failing step raised, never one raised by a cleanup close().
C3_CleanupKeepsOriginalError ==
    (/\ last.op = "jumphost_transport_connect"
     /\ last.outcome = "raise"
     /\ last.exc # "ValueError")
    => (/\ \A h \in Constructed : HasEv("close", h)
        /\ last.exc \in SshExcs
        /\ \E h \in Constructed : HasEv(last.exc, h))

\* C4: junos_close_connection (jumphost_disconnect) called with a session
\* cached has called close() on it and left the slot empty when it returns,
\* whether close() returned or raised.
C4_CloseEmptiesSlot ==
    /\ (last.op = "junos_close_connection" /\ last.pre.dev # None)
       => (HasEv("close", last.pre.dev) /\ _junos_device = None)
    /\ (last.op = "jumphost_disconnect" /\ last.pre.jump # None)
       => (HasEv("close", last.pre.jump) /\ _jumphost_client = None)

CloseOps ==
    {"junos_close_connection", "jumphost_disconnect", "jumphost_transport_disconnect",
     "close_all_connections"}

\* C5: junos_close_connection, jumphost_disconnect,
\* jumphost_transport_disconnect and close_all_connections never raise: they
\* return None, and every exception of a close() is followed by an error log.
C5_CloseNeverRaises ==
    last.op \in CloseOps =>
        /\ last.outcome = "return"
        /\ last.kind = "None"
        /\ \A i \in DOMAIN last.events :
               last.events[i].ev = "CloseError"
               => (i < Len(last.events) /\ last.events[i + 1] = Ev("logger.error", None))

\* A teardown in which close() raised on two cached handles.
C5_Witness ==
    /\ last.op = "close_all_connections"
    /\ last.pre.dev # None
    /\ CloseFailed(last.pre.dev)
    /\ last.pre.jump # None
    /\ CloseFailed(last.pre.jump)
    /\ last.outcome = "return"

\* No handle is cached for the close method the call is about.
NothingCached ==
    \/ last.op = "junos_close_connection" /\ last.pre.dev = None
    \/ last.op = "jumphost_disconnect" /\ last.pre.jump = None
    \/ /\ last.op = "jumphost_transport_disconnect"
       /\ last.pre.target = None
       /\ last.pre.jump = None

\* The call did nothing: no library call, no exception, slots as they were.
NoOp ==
    /\ last.outcome = "return"
    /\ \A i \in DOMAIN last.events : last.events[i].ev \notin {"close", "CloseError"}
    /\ SlotsUnchanged

\* C6 as stated: each of the three close methods, called with no handle
\* cached for it, logs a warning, does not raise, calls no close() and
\* leaves the slots unchanged.
C6_NothingCachedWarns == NothingCached => (Logged("logger.warning") /\ NoOp)

\* C6 amended: with no handle cached, none of the three close methods
\* raises, calls close() or changes a slot; junos_close_connection and
\* jumphost_disconnect log a warning and nothing else, while
\* jumphost_transport_disconnect logs nothing at all.
C6_NothingCachedNoOp ==
    NothingCached =>
        /\ NoOp
        /\ IF last.op = "jumphost_transport_disconnect"
           THEN last.events = <<Ev("jumphost_transport_disconnect", None)>>
           ELSE last.events = <<Ev(last.op, None), Ev("logger.warning", None)>>

\* Each of the three close methods called with nothing cached for it.
C6_Witness ==
    /\ last.op = "jumphost_transport_disconnect"
    /\ NothingCached
    /\ ~Logged("logger.warning")
    /\ _junos_device # None

----------------------------------------------------------------------------
(* Tunnel, device sessions, upload *)

\* C7: jumphost_transport_connect with an empty or missing dst_host raises
\* ValueError before it constructs a client object or makes a network call,
\* whatever is cached, and leaves the slots unchanged.
C7_EmptyDstHostRejected ==
    (last.op = "jumphost_transport_connect" /\ Falsy(last.args.dst.dst_host))
    => (/\ last.outcome = "raise"
        /\ last.exc = "ValueError"
        /\ last.events = <<Ev("jumphost_transport_connect", None)>>
        /\ SlotsUnchanged)

\* An empty dst_host given while a tunnel pair is cached.
C7_Witness ==
    /\ last.op = "jumphost_transport_connect"
    /\ last.args.dst.dst_host = ""
    /\ last.pre.target # None
    /\ last.pre.jump # None
    /\ last.exc = "ValueError"

\* C8: jumphost_transport_disconnect calls close() on the cached target and
\* then on the cached jump host; the jump host's close() is called whether
\* or not the target's raised; a slot is cleared exactly when its handle's
\* close() returned.
C8_TunnelClosedTargetFirst ==
    last.op = "jumphost_transport_disconnect" =>
        /\ last.pre.target # None =>
              /\ Cardinality(Pos("close", last.pre.target)) = 1
              /\ _target_client = IF CloseFailed(last.pre.target) THEN last.pre.target ELSE None
        /\ last.pre.jump # None =>
              /\ Cardinality(Pos("close", last.pre.jump)) = 1
              /\ _jumphost_client = IF CloseFailed(last.pre.jump) THEN last.pre.jump ELSE None
        /\ (last.pre.target # None /\ last.pre.jump # None)
              => Before("close", last.pre.target, "close", last.pre.jump)

\* The target's close() raised and the jump host was closed all the same.
C8_Witness ==
    /\ last.op = "jumphost_transport_disconnect"
    /\ last.pre.target # None
    /\ last.pre.jump # None
    /\ CloseFailed(last.pre.target)
    /\ HasEv("close", last.pre.jump)
    /\ _target_client = last.pre.target
    /\ _jumphost_client = None

\* Device sessions the manager opened and has not successfully closed.
LiveDevices ==
    {h \in DOMAIN handles : handles[h].class = "Device" /\ handles[h].st = "open"}

\* C9: at most one device session that the manager opened and has not
\* successfully closed exists, and it is the cached one.
C9_OneLiveDevice ==
    /\ Cardinality(LiveDevices) <= 1
    /\ LiveDevices \subseteq {_junos_device}

\* A device session whose close() raised: it stays cached, and it is the
\* only live one.
C9_Witness ==
    /\ last.op \in {"junos_close_connection", "close_all_connections"}
    /\ last.pre.dev # None
    /\ CloseFailed(last.pre.dev)
    /\ _junos_device = last.pre.dev
    /\ LiveDevices = {_junos_device}

\* C10: copy_file_local_to_remote with non-empty src_path and dst_path whose
\* src_path does not exist locally raises FileNotFoundError before it looks
\* up or opens a connection, for either value of use_jumphost, and leaves
\* the slots unchanged.
C10_MissingSourceFailsFirst ==
    (/\ last.op = "copy_file_local_to_remote"
     /\ ~Falsy(last.args.src_path)
     /\ ~Falsy(last.args.dst_path)
     /\ ~last.args.src_exists)
    => (/\ last.outcome = "raise"
        /\ last.exc = "FileNotFoundError"
        /\ ~HasEv("jumphost_connect", None)
        /\ Constructed = {}
        /\ ~Networked
        /\ SlotsUnchanged)

\* An upload of a missing file via the jump host, with none cached.
C10_Witness ==
    /\ last.op = "copy_file_local_to_remote"
    /\ last.args.src_path = "a.txt"
    /\ last.args.dst_path = "a.txt"
    /\ ~last.args.src_exists
    /\ last.args.use_jumphost
    /\ last.pre.jump = None
    /\ last.exc = "FileNotFoundError"

----------------------------------------------------------------------------
(* Transfers without the jump host *)

CopyOps == {"copy_file_local_to_remote", "copy_file_remote_to_local"}

\* C11: copy_file_local_to_remote (with an existing local src_path) and
\* copy_file_remote_to_local, called with use_jumphost false and non-empty
\* paths, log an error and return False: they do not raise, do not look up,
\* open or use a connection, and leave the slots unchanged.
C11_DirectCopyDeclined ==
    (/\ last.op \in CopyOps
     /\ ~Falsy(last.args.src_path)
     /\ ~Falsy(last.args.dst_path)
     /\ ~last.args.use_jumphost
     /\ last.op = "copy_file_local_to_remote" => last.args.src_exists)
    => (/\ last.outcome = "return"
        /\ last.kind = "False"
        /\ Logged("logger.error")
        /\ ~HasEv("jumphost_connect", None)
        /\ Constructed = {}
        /\ ~Networked
        /\ SlotsUnchanged)

\* A download with use_jumphost false while a jump-host session is cached.
C11_Witness ==
    /\ last.op = "copy_file_remote_to_local"
    /\ last.args.src_path = "a.txt"
    /\ last.args.dst_path = "a.txt"
    /\ ~last.args.use_jumphost
    /\ last.pre.jump # None
    /\ last.kind = "False"

----------------------------------------------------------------------------
(* Email *)

\* The required parameters that the call left empty or did not give.
EmptyParams ==
    {p \in {RequiredParams[i] : i \in DOMAIN RequiredParams} : Falsy(last.args.args[p])}

\* The data of the call's trace entries of the given name.
DataOf(name) ==
    {last.events[i].data : i \in {j \in DOMAIN last.events : last.events[j].ev = name}}

\* C12: send_email with one or more of email_from, email_to, email_subject,
\* greeting, email_body empty raises ValueError whose message names each
\* empty parameter once and no other, and no relay connection is made.
C12_EveryMissingParamNamed ==
    (last.op = "send_email" /\ EmptyParams # {})
    => (/\ last.outcome = "raise"
        /\ last.exc = "ValueError"
        /\ Len(last.events) = 2
        /\ \A d \in DataOf("ValueError") :
              /\ {d.missing[i] : i \in DOMAIN d.missing} = EmptyParams
              /\ Len(d.missing) = Cardinality(EmptyParams)
        /\ DataOf("ValueError") # {}
        /\ DataOf("smtplib.SMTP") = {}
        /\ DataOf("send_message") = {})

\* email_to and email_body are empty, the other three are given.
C12_Witness ==
    /\ last.op = "send_email"
    /\ EmptyParams = {"email_to", "email_body"}
    /\ \E d \in DataOf("ValueError") :
          d.message = "Missing required email parameters: email_to, email_body"

\* The attachment names whose path under destination_path exists, in the
\* order of attach_list.
ExistingAttachments ==
    LET a == last.args.args
        env == last.args.env
    IN SelectSeq(a.attach_list,
                 LAMBDA n : os_path_join(a.destination_path, n) \in env.files)

\* C13: send_email with the required parameters given, an attachment
\* directory and an attachment list sends the message and returns True when
\* the files that exist can be read and the relay accepts; the message
\* carries the attachments whose path exists, in list order, and no other.
C13_MissingAttachmentsSkipped ==
    LET a == last.args.args
        env == last.args.env
    IN (/\ last.op = "send_email"
        /\ EmptyParams = {}
        /\ a.attach_list # <<>>
        /\ ~Falsy(a.destination_path)
        /\ env.unreadable = {}
        /\ env.fail = "none")
       => (/\ last.outcome = "return"
           /\ last.kind = "True"
           /\ Cardinality(DataOf("send_message")) = 1
           /\ \A m \in DataOf("send_message") : m.attachments = ExistingAttachments)

\* The first name of the list does not exist, the second does: the message
\* is sent with the second only.
C13_Witness ==
    LET a == last.args.args
        env == last.args.env
    IN /\ last.op = "send_email"
       /\ Len(a.attach_list) = 2
       /\ os_path_join(a.destination_path, a.attach_list[1]) \notin env.files
       /\ os_path_join(a.destination_path, a.attach_list[2]) \in env.files
       /\ last.kind = "True"
       /\ \E m \in DataOf("send_message") : m.attachments = <<a.attach_list[2]>>

----------------------------------------------------------------------------
(* Construction without a configuration file *)

\* The Device constructions of the call, with their keyword arguments.
DeviceCalls ==
    {<<last.events[i].h, last.events[i].args>> :
        i \in {j \in DOMAIN last.events : last.events[j].ev = "Device"}}

----------------------------------------------------------------------------
(* SSH clients and the two SSH slots *)

\* SSH clients the manager connected and has not closed.
LiveSshClients ==
    {i \in DOMAIN handles : handles[i].class = "SSHClient" /\ handles[i].st = "open"}

\* C15: an SSH client that a call found in _jumphost_client or
\* _target_client and that is in neither slot after the call has been
\* closed: no connected client is overwritten in its slot.
C15_NoLiveClientDropped ==
    \A h \in {last.pre.jump, last.pre.target} \ {None} :
        h \in LiveSshClients => h \in {_jumphost_client, _target_client}

----------------------------------------------------------------------------
(* Failed connection set-up *)

OpenOps == {"junos_open_connection", "jumphost_connect", "jumphost_transport_connect"}

\* The errors that open(), connect() or open_channel() raised during the call.
SetupErrors ==
    {last.events[i].ev : i \in {j \in DOMAIN last.events :
                                   last.events[j].ev \in JunosExcs \cup SshExcs}}

\* The call made the library call name at most once on every handle.
AtMostOnce(name) ==
    \A h \in DOMAIN handles : Cardinality(Pos(name, h)) <= 1

\* C16: when open(), connect() or open_channel() raises in
\* junos_open_connection, jumphost_connect or jumphost_transport_connect,
\* the call raises that error, has tried the failing step once, and leaves
\* the three slots as they were.
C16_FailedOpenReraisesKeepsSlots ==
    (last.op \in OpenOps /\ SetupErrors # {})
    => (/\ last.outcome = "raise"
        /\ last.exc \in SetupErrors
        /\ AtMostOnce("open") /\ AtMostOnce("connect") /\ AtMostOnce("open_channel")
        /\ SlotsUnchanged)

----------------------------------------------------------------------------
(* Concurrent use *)

\* Thread t's open call found the slot empty, connected a session of its
\* own, stored it and returned.
OpenedOwn(t) ==
    /\ threads[t].op \in ThreadOpens
    /\ threads[t].pc = "done"
    /\ threads[t].outcome = "return"
    /\ threads[t].local # None

\* Some thread's close call has closed h.
ClosedByThread(h) == \E t \in Threads : threads[t].closed = h

\* C17: with threads calling the open and close methods concurrently, a
\* session that an open call connected and stored is live until a close
\* call closes it, also after another thread's open has overwritten it in
\* the slot (so two opens that both found the slot empty leave two live
\* sessions, one of them uncached); and a slot holds a closed handle exactly
\* while a close call is between its close() and the clearing of the slot.
C17_RacingOpensLeakSession ==
    /\ \A t \in Threads :
          (OpenedOwn(t) /\ ~ClosedByThread(threads[t].local))
          => handles[threads[t].local].st = "open"
    /\ \A h \in {_junos_device, _jumphost_client} \ {None} :
          handles[h].st = "closed"
          <=> \E t \in Threads : threads[t].pc = "clear" /\ threads[t].closed = h

\* Two junos_open_connection calls both found the slot empty and both
\* connected: two live device sessions, one of them cached. And while a
\* jumphost_disconnect is between close() and the clearing of the slot, a
\* jumphost_connect has returned the closed client the slot holds.
C17_Witness ==
    /\ \E t1, t2 \in Threads :
          /\ t1 # t2
          /\ OpenedOwn(t1) /\ OpenedOwn(t2)
          /\ threads[t1].op = "junos_open_connection"
          /\ threads[t2].op = "junos_open_connection"
          /\ handles[threads[t1].local].st = "open"
          /\ handles[threads[t2].local].st = "open"
          /\ _junos_device = threads[t2].local
          /\ _junos_device # threads[t1].local
    /\ \E t3, t4 \in Threads :
          /\ threads[t3].op = "jumphost_disconnect"
          /\ threads[t3].pc = "clear"
          /\ threads[t4].op = "jumphost_connect"
          /\ threads[t4].pc = "done"
          /\ threads[t4].local = None
          /\ threads[t4].ret = _jumphost_client
          /\ _jumphost_client # None
          /\ handles[_jumphost_client].st = "closed"

----------------------------------------------------------------------------
(* Order of the jump-host and target closes *)

\* C18: jumphost_disconnect called with a tunnel pair cached calls close()
\* on the jump-host client, never on the target, and clears the jump-host
\* slot once that close() has returned; the target stays cached and
\* unclosed. jumphost_transport_disconnect and close_all_connections called
\* with the pair cached call close() on the target before any close() on the
\* jump host.
C18_JumpClosedUnderTarget ==
    LET pair == last.pre.jump # None /\ last.pre.target # None
    IN /\ (last.op = "jumphost_disconnect" /\ pair)
          => (/\ Cardinality(Pos("close", last.pre.jump)) = 1
              /\ ~CloseFailed(last.pre.jump) => _jumphost_client = None
              /\ ~HasEv("close", last.pre.target)
              /\ _target_client = last.pre.target
              /\ handles[_target_client].st = "open")
       /\ (last.op \in {"jumphost_transport_disconnect", "close_all_connections"} /\ pair)
          => (/\ HasEv("close", last.pre.target)
              /\ HasEv("close", last.pre.jump)
              /\ Before("close", last.pre.target, "close", last.pre.jump))

\* The jump host of a cached tunnel pair has been closed and dropped; the
\* target client is still cached and connected.
C18_Witness ==
    /\ last.op = "jumphost_disconnect"
    /\ last.pre.jump # None
    /\ last.pre.target # None
    /\ HasEv("close", last.pre.jump)
    /\ ~CloseFailed(last.pre.jump)
    /\ _jumphost_client = None
    /\ _target_client = last.pre.target
    /\ handles[_target_client].st = "open"

----------------------------------------------------------------------------
(* Shell sessions *)

\* C19: connect_junos_shell called with a device session cached returns a
\* shell over that session, constructs and opens nothing, and leaves the
\* slots unchanged. Called with none cached, it opens one Device first,
\* caches it and returns a shell over it; when that open raises, the call
\* raises the same error and the device slot is still empty.
C19_ShellWrapsCachedDevice ==
    last.op = "connect_junos_shell" =>
        /\ last.pre.dev # None
           => (/\ last.outcome = "return"
               /\ last.kind = "shell"
               /\ last.ret = <<last.pre.dev>>
               /\ HasEv("StartShell", last.pre.dev)
               /\ Constructed = {}
               /\ ~Networked
               /\ SlotsUnchanged)
        /\ (last.pre.dev = None /\ last.outcome = "return")
           => (/\ Cardinality(Constructed) = 1
               /\ _junos_device \in Constructed
               /\ handles[_junos_device].st = "open"
               /\ last.kind = "shell"
               /\ last.ret = <<_junos_device>>
               /\ Before("open", _junos_device, "StartShell", _junos_device)
               /\ HasEv("StartShell", _junos_device))
        /\ (last.pre.dev = None /\ last.outcome = "raise")
           => (/\ last.exc \in JunosExcs
               /\ \E h \in Constructed : HasEv("open", h) /\ HasEv(last.exc, h)
               /\ \A h \in DOMAIN handles : ~HasEv("StartShell", h)
               /\ _junos_device = None
               /\ SlotsUnchanged)

\* Two shells in a row: the first call opened and cached the device, the
\* second wraps the same device.
C19_Witness ==
    /\ last.op = "connect_junos_shell"
    /\ last.twice
    /\ last.pre.dev # None
    /\ last.ret = last.before
    /\ last.ret = <<_junos_device>>
    /\ handles[_junos_device].st = "open"

----------------------------------------------------------------------------
(* Copies with an empty path *)

\* C20: copy_file_local_to_remote and copy_file_remote_to_local called with
\* an empty src_path or dst_path log an error and return False before any
\* other step: they do not raise, do not check that the source exists, do
\* not look up or open a connection, and leave the slots unchanged.
C20_EmptyPathReturnsFalse ==
    (/\ last.op \in CopyOps
     /\ Falsy(last.args.src_path) \/ Falsy(last.args.dst_path))
    => (/\ last.outcome = "return"
        /\ last.kind = "False"
        /\ Logged("logger.error")
        /\ ~HasEv("os.path.exists", None)
        /\ ~HasEv("jumphost_connect", None)
        /\ Constructed = {}
        /\ ~Networked
        /\ SlotsUnchanged)

\* An upload via the jump host of a file that does not exist to an empty
\* destination, with no jump host cached: False, and no FileNotFoundError.
C20_Witness ==
    /\ last.op = "copy_file_local_to_remote"
    /\ last.args.src_path = "a.txt"
    /\ ~last.args.src_exists
    /\ last.args.dst_path = ""
    /\ last.args.use_jumphost
    /\ last.pre.jump = None
    /\ last.kind = "False"

----------------------------------------------------------------------------
(* Teardown of every cache state *)

\* The handles the call found in the three slots.
CachedBefore == {last.pre.dev, last.pre.jump, last.pre.target} \ {None}

\* No close() raised during the call.
EveryCloseReturned == \A h \in DOMAIN handles : ~CloseFailed(h)

\* C21: close_all_connections (called directly or by __exit__) in which
\* every close() returned leaves the three slots empty, and has called
\* close() exactly once on each handle that was cached and on no other.
C21_CloseAllClosesEachOnce ==
    (last.op \in {"close_all_connections", "__exit__"} /\ EveryCloseReturned)
    => (/\ Slots(Self) = [dev |-> None, jump |-> None, target |-> None]
        /\ \A h \in DOMAIN handles :
              Cardinality(Pos("close", h)) = IF h \in CachedBefore THEN 1 ELSE 0)

\* close_all_connections with a device, a jump host and a target cached:
\* three closes, the jump host's before the jumphost_disconnect step, which
\* finds its slot empty.
C21_Witness ==
    /\ last.op = "close_all_connections"
    /\ Cardinality(CachedBefore) = 3
    /\ EveryCloseReturned
    /\ Slots(Self) = [dev |-> None, jump |-> None, target |-> None]
    /\ Cardinality(Pos("close", last.pre.jump)) = 1
    /\ Before("close", last.pre.jump, "jumphost_disconnect", None)

----------------------------------------------------------------------------
(* Copies over a cached jump host *)

\* C22: a copy with use_jumphost true that gets as far as the connection
\* (non-empty paths, an existing source for an upload), called with a
\* jump-host session cached, transfers over that session: it constructs and
\* connects nothing, does not close the session, and whether the transfer
\* returns or raises the three slots hold what they held.
C22_CopyKeepsCachedJumphost ==
    (/\ last.op \in CopyOps
     /\ last.args.use_jumphost
     /\ ~Falsy(last.args.src_path)
     /\ ~Falsy(last.args.dst_path)
     /\ last.op = "copy_file_local_to_remote" => last.args.src_exists
     /\ last.pre.jump # None)
    => (/\ HasEv(IF last.op = "copy_file_local_to_remote" THEN "scp.put" ELSE "scp.get",
                 last.pre.jump)
        /\ Constructed = {}
        /\ \A h \in DOMAIN handles : ~HasEv("connect", h) /\ ~HasEv("close", h)
        /\ last.outcome = "return" => last.kind = "True"
        /\ SlotsUnchanged
        /\ handles[_jumphost_client].st = "open")

\* An upload over the cached jump host whose transfer raised: the session
\* is still cached and connected.
C22_Witness ==
    /\ last.op = "copy_file_local_to_remote"
    /\ last.args.use_jumphost
    /\ last.args.src_exists
    /\ last.pre.jump # None
    /\ last.outcome = "raise"
    /\ last.exc = "SCPException"
    /\ HasEv("scp.put", last.pre.jump)
    /\ _jumphost_client = last.pre.jump
    /\ handles[_jumphost_client].st = "open"

----------------------------------------------------------------------------
(* A with block left by an exception *)

\* C23: when a with block is left by an exception, __exit__ runs
\* close_all_connections to its end (the three steps, then its closing log
\* record) and the exception that reaches the caller is the block's own,
\* also when a close() raised during the teardown.
C23_BlockExceptionPropagates ==
    (last.op = "__exit__" /\ last.args.exc_type # NoneStr)
    => (/\ last.outcome = "raise"
        /\ last.exc = last.args.exc_type
        /\ HasEv("junos_close_connection", None)
        /\ HasEv("jumphost_transport_disconnect", None)
        /\ HasEv("jumphost_disconnect", None)
        /\ last.events[Len(last.events)] = Ev("logger.info", None))

\* A block left by BlockError whose teardown had the jump host's close()
\* raise (twice: in the tunnel step and in the jump-host step): BlockError
\* reaches the caller.
C23_Witness ==
    /\ last.op = "__exit__"
    /\ last.args.exc_type = "BlockError"
    /\ last.pre.jump # None
    /\ Cardinality(Pos("CloseError", last.pre.jump)) = 2
    /\ last.outcome = "raise"
    /\ last.exc = "BlockError"

====
